---- MODULE Spec2Model ----
(***************************************************************************)
(* Fyers LTP / ATM-option margin calculator: main.py, main_v2.py, app.py   *)
(* and dummy.py.                                                           *)
(*                                                                         *)
(* Prices (Python floats) are fixed-point integers counted in half-rupee   *)
(* ticks, so that a step value of 2.5 is the integer 5 and every value of  *)
(* the model is a dyadic rational that a float holds exactly.  Rs(n) is n  *)
(* rupees.  int(x) truncates a price to whole rupees.                      *)
(***************************************************************************)
EXTENDS Integers, Sequences, FiniteSets, TLC

VARIABLES
    \* ---- ATM strike calculators (pure functions) ----
    ltp,            \* the underlying's last traded price handed to the calculator
    symbol,         \* the instrument name handed to the calculator
    intervals,      \* the strike-interval table (dict symbol -> step)
    atm,            \* the outcome of the last calculator call
    \* ---- strike-interval loader ----
    gapsFile,       \* the reference file on disk
    loaded,         \* the outcome of the last loader call
    \* ---- orchestrator (LTPMarginCalculator.run / app.index) ----
    pc,             \* position in run / index
    mode,           \* "cli" (main_v2 run) or "web" (app.py index)
    csvFile,        \* the instrument file on disk
    margin_filter,  \* self.margin_filter
    api,            \* the FyersAPI instance: fyers, access_token, _authenticated
    symbols,        \* the list read_symbols_from_csv returned
    idx,            \* number of loop iterations completed
    all_results,    \* run's all_results
    filtered,       \* run's filtered_results
    cur,            \* process_symbol's locals while a call is in progress
    calls,          \* the process_symbol calls made so far, in order
    outcomes,       \* the outcome of each of those calls
    log,            \* what the run did so far: authentication attempts,
                    \* client constructions, quote requests and
                    \* rate-limiting sleeps, in order
    report,         \* the report format_output built and the result file
    quote,          \* the last get_ltp call: its inputs and its outcome
    \* ---- expiry codes ----
    now,            \* the date datetime.now() reads
    expiry,         \* the outcome of the last get_expiry_code call
    \* ---- FyersAPI.generate_access_token ----
    auth            \* the login choreography: steps issued, values held, outcome

strikeVars == <<ltp, symbol, intervals, atm>>
loadVars == <<gapsFile, loaded>>
runVars == <<pc, mode, csvFile, margin_filter, symbols, idx, all_results,
             filtered, cur, calls, outcomes, log, report>>
quoteVars == <<api, quote>>
expiryVars == <<now, expiry>>
vars == <<strikeVars, loadVars, runVars, quoteVars, expiryVars, auth>>

-----------------------------------------------------------------------------
(* Bounds of the model *)

\* LTPs are taken up to MaxOffset ticks above each base price
MaxOffset == 12
\* number of data rows of the strike-interval reference file
MaxGapRows == 3
\* number of data rows of the instrument file
MaxRows == 2
\* number of midnights that pass while process_symbol builds its identifiers
MaxDays == 1

-----------------------------------------------------------------------------
(* Fixed-point prices *)

Rs(n) == 2 * n

\* Python int() of a float: truncation toward zero to a whole number of rupees
PyInt(x) == IF x >= 0 THEN (x \div 2) * 2 ELSE 0 - (((0 - x) \div 2) * 2)

\* math.floor(a / b) and math.ceil(a / b), b > 0
FloorDiv(a, b) == a \div b
CeilDiv(a, b) == 0 - ((0 - a) \div b)

\* math.fmod(a, b) for a >= 0, b > 0
Fmod(a, b) == a % b

Abs(x) == IF x >= 0 THEN x ELSE 0 - x

\* str.upper() on the instrument names of the model
Upper(s) == CASE s = "acme" -> "ACME"
              [] s = "nifty" -> "NIFTY"
              [] OTHER -> s

Symbols == {"NIFTY", "BANKNIFTY", "ACME", "acme"}

\* dict.get(key) / dict.get(key, default); None is modelled by the absence flag
Has(d, k) == k \in DOMAIN d
GetOr(d, k, default) == IF k \in DOMAIN d THEN d[k] ELSE default

-----------------------------------------------------------------------------
(* ATM strike calculators *)

\* main_v2.py Utils.calculate_atm_strike, the price-based interval
PriceBasedInterval(l) ==
    IF l < Rs(500) THEN Rs(5)
    ELSE IF l < Rs(1000) THEN Rs(10)
    ELSE IF l < Rs(2000) THEN Rs(20)
    ELSE IF l < Rs(5000) THEN Rs(50)
    ELSE Rs(100)

\* main_v2.py Utils.calculate_atm_strike: the interval used.  "not interval"
\* is true for None (symbol absent) and for 0.
IntervalV2(l, s, table) ==
    LET k == GetOr(table, Upper(s), 0)
    IN IF k = 0 THEN PriceBasedInterval(l) ELSE k

\* a calculator that rounds down
calculate_atm_strike_floor(l, s, table) ==
    LET interval == IntervalV2(l, s, table)
    IN [impl |-> "main_v2", raised |-> FALSE, interval |-> interval,
        value |-> PyInt(FloorDiv(l, interval) * interval)]

\* main_v2.py Utils.calculate_atm_strike
calculate_atm_strike_v2(l, s, table) ==
    LET interval == IntervalV2(l, s, table)
    IN [impl |-> "main_v2", raised |-> FALSE, interval |-> interval,
        value |-> PyInt(CeilDiv(l, interval) * interval)]

\* dummy.py calculate_atm_strike: the interval is the literal 2.5
DummyInterval == 5

calculate_atm_strike_dummy(l) ==
    [impl |-> "dummy", raised |-> FALSE, interval |-> DummyInterval,
     value |-> PyInt(CeilDiv(l, DummyInterval) * DummyInterval)]

\* main.py calculate_atm_strike, the NIFTY / BANKNIFTY branches
RoundFmod(l, k) ==
    LET val2 == Fmod(l, k)
        val3 == IF val2 >= k \div 2 THEN k ELSE 0
    IN PyInt(l - val2 + val3)

\* main.py calculate_atm_strike
calculate_atm_strike_main(l, s, table) ==
    LET interval == GetOr(table, s, Rs(50))
    IN IF s = "NIFTY"
       THEN [impl |-> "main", raised |-> FALSE, interval |-> Rs(50),
             value |-> RoundFmod(l, Rs(50))]
       ELSE IF s = "BANKNIFTY"
       THEN [impl |-> "main", raised |-> FALSE, interval |-> Rs(100),
             value |-> RoundFmod(l, Rs(100))]
       ELSE IF interval = 0
       THEN \* ZeroDivisionError
            [impl |-> "main", raised |-> TRUE, interval |-> 0, value |-> 0]
       ELSE LET val1 == FloorDiv(l, interval) * interval
                val2 == CeilDiv(l, interval) * interval
            IN [impl |-> "main", raised |-> FALSE, interval |-> interval,
                value |-> PyInt(IF Abs(l - val1) < Abs(l - val2)
                                THEN val1 ELSE val2)]

-----------------------------------------------------------------------------
(* Inputs of the strike calculators *)

LtpBases == {0, 210, 495, 995, 1995, 4995, 24020, 24045}
LtpValues == {l \in {Rs(b) + t : b \in LtpBases, t \in 0..MaxOffset} : l > 0}

\* step values a reference file can hold: 0, 2.5, 50 and 100
Steps == {0, 5, Rs(50), Rs(100)}
TableKeys == {"NIFTY", "BANKNIFTY", "ACME"}
Tables == UNION {[D -> Steps] : D \in SUBSET TableKeys}

NoCall == [impl |-> "none", raised |-> FALSE, interval |-> 0, value |-> 0]

-----------------------------------------------------------------------------
(* Idle values of the parts a specification does not exercise *)

NoFile == [exists |-> FALSE, dateLine |-> FALSE, header |-> <<>>, rows |-> <<>>]
NoLoad == [impl |-> "none", raised |-> FALSE, table |-> <<>>]
NoApi == [fyers |-> FALSE, access_token |-> FALSE, authenticated |-> FALSE]

StrikeIdle ==
    /\ ltp = 0 /\ symbol = "NIFTY" /\ intervals = <<>> /\ atm = NoCall
LoadIdle ==
    /\ gapsFile = NoFile /\ loaded = NoLoad
NoQuote == [impl |-> "none", symbol |-> <<>>, before |-> NoApi, authOk |-> FALSE,
            resp |-> [kind |-> "none", lp |-> 0], raised |-> FALSE, value |-> 0]
NoCur == [ltp |-> 0, atm_strike |-> 0, ce_symbol |-> <<>>, pe_symbol |-> <<>>,
          ce_ltp |-> 0, pe_ltp |-> 0, ce_margin |-> 0]
NoReport == [lines |-> <<>>, written |-> FALSE]
RunIdle ==
    /\ pc = "idle" /\ mode = "cli" /\ csvFile = NoFile /\ margin_filter = 0
    /\ symbols = <<>> /\ idx = 0 /\ all_results = <<>>
    /\ filtered = <<>> /\ cur = NoCur /\ calls = <<>> /\ outcomes = <<>>
    /\ log = <<>> /\ report = NoReport
QuoteIdle ==
    /\ api = NoApi /\ quote = NoQuote
NoDate == [y |-> 0, m |-> 0, d |-> 0]
NoExpiry == [impl |-> "none", code |-> <<>>]
ExpiryIdle ==
    /\ now = NoDate /\ expiry = NoExpiry
NoAuth == [impl |-> "none", pc |-> "idle", issued |-> <<>>, answers |-> <<>>,
           held |-> "", result |-> "pending"]
AuthIdle ==
    /\ auth = NoAuth

-----------------------------------------------------------------------------
(* Specification of the strike calculators: each is applied once to an     *)
(* LTP, a symbol and an interval table drawn from the sets above.          *)

InitStrike ==
    /\ ltp \in LtpValues
    /\ symbol \in Symbols
    /\ intervals \in Tables
    /\ atm = NoCall
    /\ LoadIdle /\ RunIdle /\ QuoteIdle /\ ExpiryIdle /\ AuthIdle

CalcV2 ==
    /\ atm.impl = "none"
    /\ atm' = calculate_atm_strike_v2(ltp, symbol, intervals)
    /\ UNCHANGED <<ltp, symbol, intervals, loadVars, runVars, quoteVars,
                   expiryVars, auth>>

CalcMain ==
    /\ atm.impl = "none"
    /\ atm' = calculate_atm_strike_main(ltp, symbol, intervals)
    /\ UNCHANGED <<ltp, symbol, intervals, loadVars, runVars, quoteVars,
                   expiryVars, auth>>

CalcDummy ==
    /\ atm.impl = "none"
    /\ atm' = calculate_atm_strike_dummy(ltp)
    /\ UNCHANGED <<ltp, symbol, intervals, loadVars, runVars, quoteVars,
                   expiryVars, auth>>

NextStrike == CalcV2 \/ CalcMain \/ CalcDummy

SpecStrike == InitStrike /\ [][NextStrike]_vars

-----------------------------------------------------------------------------
(* Claims about the strike calculators *)

IsMultiple(s, k) == k > 0 /\ s % k = 0

\* the multiples of k around l: the nearest one is among them
NearbyMultiples(l, k) == {k * j : j \in ((l \div k) - 2)..((l \div k) + 2)}

IsNearest(s, l, k) ==
    /\ IsMultiple(s, k)
    /\ \A m \in NearbyMultiples(l, k) : Abs(s - l) <= Abs(m - l)

\* the multiple of k nearest to l, the higher one on a tie
NearestUp(l, k) == ((2 * l + k) \div (2 * k)) * k

\* C1: main_v2 calculate_atm_strike returns, for a positive LTP and a symbol
\* whose interval k is in the table, a multiple s of k with |s - LTP| <=
\* |m - LTP| for every other multiple m of k.
C1_V2RoundsToNearest ==
    (atm.impl = "main_v2" /\ Has(intervals, Upper(symbol))
        /\ intervals[Upper(symbol)] > 0)
    => IsNearest(atm.value, ltp, intervals[Upper(symbol)])

\* the interval C2 names for a symbol
IntervalOfClaimMain(s, table) ==
    IF s = "NIFTY" THEN Rs(50)
    ELSE IF s = "BANKNIFTY" THEN Rs(100)
    ELSE IF s \in DOMAIN table THEN table[s] ELSE Rs(50)

\* C2: main.py calculate_atm_strike returns, for a positive LTP, the multiple
\* of the symbol's interval (50 NIFTY, 100 BANKNIFTY, the loaded step for any
\* other symbol, 50 when not listed) nearest to the LTP, the higher one when
\* the LTP is halfway between two multiples.
C2_MainRoundsToNearestHalfUp ==
    (atm.impl = "main" /\ IntervalOfClaimMain(symbol, intervals) > 0)
    => /\ ~atm.raised
       /\ atm.value = NearestUp(ltp, IntervalOfClaimMain(symbol, intervals))

\* C3: the strike main_v2 and dummy.py return is an exact multiple of the
\* interval used, for every positive LTP and positive interval, fractional
\* step values such as 2.5 included.
C3_StrikeIsMultipleOfInterval ==
    (atm.impl \in {"main_v2", "dummy"})
    => IsMultiple(atm.value, atm.interval)

\* the interval C19 names for an LTP
IntervalFromLtp(l) ==
    IF l < Rs(500) THEN Rs(5)
    ELSE IF l < Rs(1000) THEN Rs(10)
    ELSE IF l < Rs(2000) THEN Rs(20)
    ELSE IF l < Rs(5000) THEN Rs(50)
    ELSE Rs(100)

\* the symbol has no interval in the table, or its interval is 0
NoIntervalFor(s, table) == ~Has(table, Upper(s)) \/ table[Upper(s)] = 0

\* C19: in main_v2 calculate_atm_strike, when the symbol has no interval in
\* the table or its interval is 0, the interval is chosen from the LTP alone
\* (5 below 500, 10 below 1000, 20 below 2000, 50 below 5000, 100 otherwise),
\* nothing is divided by zero, and the strike is the smallest multiple of
\* that interval that is >= LTP: LTP <= strike < LTP + interval.
C19_FallbackIntervalAndStrike ==
    (atm.impl = "main_v2" /\ NoIntervalFor(symbol, intervals)) =>
        /\ ~atm.raised
        /\ atm.interval = IntervalFromLtp(ltp)
        /\ IsMultiple(atm.value, atm.interval)
        /\ ltp <= atm.value
        /\ atm.value < ltp + atm.interval

\* an LTP of 995.5 for a symbol whose interval in the table is 0: interval
\* 10, strike 1000
C19_Witness ==
    /\ atm.impl = "main_v2"
    /\ Has(intervals, Upper(symbol)) /\ intervals[Upper(symbol)] = 0
    /\ ltp = Rs(995) + 1
    /\ atm.interval = Rs(10)
    /\ atm.value = Rs(1000)

-----------------------------------------------------------------------------
(* Strike-interval loader *)

\* str.strip() on the symbol cells of the model
Strip(s) == IF s = " ACME " THEN "ACME" ELSE s

\* main_v2.py Utils.get_default_intervals
get_default_intervals ==
    [s \in {"NIFTY", "BANKNIFTY", "FINNIFTY", "MIDCPNIFTY", "NIFTY NEXT 50",
            "SENSEX"} |->
        CASE s = "NIFTY" -> Rs(50)
          [] s = "BANKNIFTY" -> Rs(100)
          [] s = "FINNIFTY" -> Rs(50)
          [] s = "MIDCPNIFTY" -> Rs(25)
          [] s = "NIFTY NEXT 50" -> Rs(100)
          [] s = "SENSEX" -> Rs(100)]

\* The lines of a reference file: an optional date line, the header line and
\* the data lines.
FileLines(file) ==
    (IF file.dateLine THEN <<[kind |-> "date"]>> ELSE <<>>)
    \o <<[kind |-> "header", cols |-> file.header]>>
    \o [i \in 1..Len(file.rows) |->
            [kind |-> "row", sym |-> file.rows[i].sym, gap |-> file.rows[i].gap]]

\* csv.DictReader: the first line it is given supplies the field names, every
\* later line is a row.  A data line read as the header names no column that
\* the loaders look up.
Fieldnames(line) == IF line.kind = "header" THEN line.cols ELSE <<>>
DictReader(lines) ==
    IF lines = <<>>
    THEN [fieldnames |-> <<>>, rows |-> <<>>]
    ELSE [fieldnames |-> Fieldnames(lines[1]), rows |-> Tail(lines)]

HasColumn(fieldnames, name) == \E i \in 1..Len(fieldnames) : fieldnames[i] = name

\* main_v2.py: the first line is kept only when it starts with 'Symbol'
ReaderV2(file) ==
    LET lines == FileLines(file)
        first == lines[1]
        isHeader == first.kind = "header" /\ first.cols # <<>>
                        /\ first.cols[1] = "Symbol"
    IN DictReader(IF isHeader THEN lines ELSE Tail(lines))

\* main.py: next(f) drops the first line whatever it is
ReaderMain(file) == DictReader(Tail(FileLines(file)))

\* "if symbol not in strike_intervals or step_value < strike_intervals[symbol]"
StoreStepLast(table, s, step) == (s :> step) @@ table

StoreStep(table, s, step) ==
    IF s \notin DOMAIN table \/ step < table[s]
    THEN (s :> step) @@ table
    ELSE table

\* the "for row in reader" loop of both loaders, from row i on; gapCol is the
\* column holding the step ('Gap' in main_v2.py, 'Step Value' in main.py).
\* It stops at the first row that raises (KeyError, ValueError, TypeError).
RECURSIVE LoadRows(_, _, _, _)
LoadRows(reader, gapCol, i, table) ==
    IF i > Len(reader.rows)
    THEN [raised |-> FALSE, table |-> table]
    ELSE LET row == reader.rows[i]
         IN IF ~HasColumn(reader.fieldnames, "Symbol")
            THEN [raised |-> TRUE, table |-> table]
            ELSE IF ~HasColumn(reader.fieldnames, gapCol)
            THEN [raised |-> TRUE, table |-> table]
            ELSE IF ~row.gap.numeric
            THEN [raised |-> TRUE, table |-> table]
            ELSE LoadRows(reader, gapCol, i + 1,
                          StoreStep(table, Strip(row.sym), row.gap.val))

\* main_v2.py load_strike_intervals_from_file, the except branch; partial is
\* the table built before the exception
OnLoadErrorPartial(partial) == partial

OnLoadError(partial) == get_default_intervals

\* main_v2.py Utils.load_strike_intervals_from_file
load_strike_intervals_v2(file) ==
    IF ~file.exists
    THEN [impl |-> "main_v2", raised |-> FALSE, table |-> get_default_intervals]
    ELSE LET r == LoadRows(ReaderV2(file), "Gap", 1, <<>>)
         IN IF r.raised
            THEN [impl |-> "main_v2", raised |-> FALSE,
                  table |-> OnLoadError(r.table)]
            ELSE [impl |-> "main_v2", raised |-> FALSE, table |-> r.table]

\* main.py load_strike_intervals_from_file: no handler, open() raises on a
\* missing file
load_strike_intervals_main(file) ==
    IF ~file.exists
    THEN [impl |-> "main", raised |-> TRUE, table |-> <<>>]
    ELSE LET r == LoadRows(ReaderMain(file), "Step Value", 1, <<>>)
         IN [impl |-> "main", raised |-> r.raised, table |-> r.table]

-----------------------------------------------------------------------------
(* Specification of the loaders: each is applied once to a reference file  *)

GapCells ==
    {[numeric |-> TRUE, val |-> v] : v \in {5, Rs(50), Rs(100)}}
    \cup {[numeric |-> FALSE, val |-> 0]}
GapRows == [sym : {"NIFTY", "ACME", " ACME "}, gap : GapCells]
Headers == {<<"Symbol", "Gap">>, <<"Symbol", "Step Value">>, <<"Name", "Gap">>}

RECURSIVE SeqsUpTo(_, _)
SeqsUpTo(S, n) ==
    IF n = 0 THEN {<<>>}
    ELSE LET shorter == SeqsUpTo(S, n - 1)
         IN shorter \cup {Append(q, x) : q \in {r \in shorter : Len(r) = n - 1},
                                          x \in S}

GapFiles ==
    {NoFile} \cup
    [exists : {TRUE}, dateLine : BOOLEAN, header : Headers,
     rows : SeqsUpTo(GapRows, MaxGapRows)]

InitLoad ==
    /\ gapsFile \in GapFiles
    /\ loaded = NoLoad
    /\ StrikeIdle /\ RunIdle /\ QuoteIdle /\ ExpiryIdle /\ AuthIdle

LoadV2 ==
    /\ loaded.impl = "none"
    /\ loaded' = load_strike_intervals_v2(gapsFile)
    /\ UNCHANGED <<gapsFile, strikeVars, runVars, quoteVars, expiryVars, auth>>

LoadMain ==
    /\ loaded.impl = "none"
    /\ loaded' = load_strike_intervals_main(gapsFile)
    /\ UNCHANGED <<gapsFile, strikeVars, runVars, quoteVars, expiryVars, auth>>

NextLoad == LoadV2 \/ LoadMain

SpecLoad == InitLoad /\ [][NextLoad]_vars

-----------------------------------------------------------------------------
(* Claims about the loaders *)

\* the reader a loader implementation builds over the file, and its step column
ReaderOf(impl, file) == IF impl = "main" THEN ReaderMain(file) ELSE ReaderV2(file)
GapColOf(impl) == IF impl = "main" THEN "Step Value" ELSE "Gap"

\* some row the reader yields does not parse: a column is missing or the step
\* is not a number
SomeRowFails(impl, file) ==
    LET rd == ReaderOf(impl, file)
    IN \E i \in 1..Len(rd.rows) :
          \/ ~HasColumn(rd.fieldnames, "Symbol")
          \/ ~HasColumn(rd.fieldnames, GapColOf(impl))
          \/ ~rd.rows[i].gap.numeric

\* the step values of the rows of symbol s
StepsOf(rows, s) ==
    {rows[i].gap.val : i \in {j \in 1..Len(rows) : Strip(rows[j].sym) = s}}
SmallestOf(S) == CHOOSE m \in S : \A x \in S : m <= x

ClaimedDefaults ==
    ("NIFTY" :> Rs(50)) @@ ("BANKNIFTY" :> Rs(100)) @@ ("FINNIFTY" :> Rs(50))
    @@ ("MIDCPNIFTY" :> Rs(25)) @@ ("NIFTY NEXT 50" :> Rs(100))
    @@ ("SENSEX" :> Rs(100))

\* C10: main_v2 load_strike_intervals_from_file never raises, and when the
\* file does not exist or any row fails to parse it returns exactly the
\* static default table, never a partially loaded one.
C10_LoaderV2AllOrNothing ==
    (loaded.impl = "main_v2")
    => /\ ~loaded.raised
       /\ (~gapsFile.exists \/ SomeRowFails("main_v2", gapsFile))
            => loaded.table = ClaimedDefaults

\* a file whose first row parses and a later row does not: the rows parsed
\* before the failure are dropped
C10_Witness ==
    /\ loaded.impl = "main_v2" /\ gapsFile.exists
    /\ LET rd == ReaderV2(gapsFile)
       IN /\ Len(rd.rows) >= 2
          /\ HasColumn(rd.fieldnames, "Symbol") /\ HasColumn(rd.fieldnames, "Gap")
          /\ rd.rows[1].gap.numeric
          /\ ~rd.rows[2].gap.numeric
    /\ loaded.table = ClaimedDefaults
    /\ ~loaded.raised

-----------------------------------------------------------------------------
(* FyersAPI: authentication state and quotes *)

\* float('nan'): a value outside every price of the model; every comparison
\* with it is false
NaN == 0 - 1000000000
Gt0(x) == x # NaN /\ x > 0
Le0(x) == x # NaN /\ x <= 0

\* what a call of generate_access_token leaves in the log
AuthEvent(authOk) == IF authOk THEN "auth_ok" ELSE "auth_failed"
\* "if not self.access_token: self.access_token = self.generate_access_token()"
AuthEvents(a, authOk) == IF a.access_token THEN <<>> ELSE <<AuthEvent(authOk)>>

\* "self.fyers = fyersModel.FyersModel(...)": a client object is constructed
ClientEvents == <<"client">>

\* initialize_fyers_model without the test of _authenticated
initialize_fyers_model_no_flag(a, authOk) ==
    LET token == a.access_token \/ authOk
    IN IF token
       THEN [api |-> [fyers |-> TRUE, access_token |-> TRUE,
                      authenticated |-> TRUE],
             ok |-> TRUE, events |-> AuthEvents(a, authOk) \o ClientEvents]
       ELSE [api |-> [a EXCEPT !.access_token = FALSE], ok |-> FALSE,
             events |-> AuthEvents(a, authOk)]

\* main_v2.py FyersAPI.initialize_fyers_model.  authOk is the outcome of
\* generate_access_token (a token, or None), consulted only when no token is
\* held.  Returns the instance, the boolean result and the calls made.
initialize_fyers_model_v2(a, authOk) ==
    IF a.authenticated
    THEN [api |-> a, ok |-> TRUE, events |-> <<>>]
    ELSE LET token == a.access_token \/ authOk
         IN IF token
            THEN [api |-> [fyers |-> TRUE, access_token |-> TRUE,
                           authenticated |-> TRUE],
                  ok |-> TRUE, events |-> AuthEvents(a, authOk) \o ClientEvents]
            ELSE [api |-> [a EXCEPT !.access_token = FALSE], ok |-> FALSE,
                  events |-> AuthEvents(a, authOk)]

\* main.py FyersAPI.initialize_fyers_model: no _authenticated flag
initialize_fyers_model_main(a, authOk) ==
    LET token == a.access_token \/ authOk
    IN IF token
       THEN [api |-> [a EXCEPT !.fyers = TRUE, !.access_token = TRUE], ok |-> TRUE,
             events |-> AuthEvents(a, authOk) \o ClientEvents]
       ELSE [api |-> [a EXCEPT !.access_token = FALSE], ok |-> FALSE,
             events |-> AuthEvents(a, authOk)]

\* main_v2.py Utils.convert_symbol_to_fyers_format (main.py: without upper())
convert_symbol_to_fyers_format(s) ==
    CASE Upper(s) = "NIFTY" -> <<"NSE:", "NIFTY50", "-INDEX">>
      [] Upper(s) = "BANKNIFTY" -> <<"NSE:", "NIFTYBANK", "-INDEX">>
      [] Upper(s) = "FINNIFTY" -> <<"NSE:", "FINNIFTY", "-INDEX">>
      [] Upper(s) = "MIDCPNIFTY" -> <<"NSE:", "MIDCPNIFTY", "-INDEX">>
      [] Upper(s) = "NIFTY NEXT 50" -> <<"NSE:", "NIFTYNXT50", "-INDEX">>
      [] Upper(s) = "SENSEX" -> <<"BSE:", "SENSEX", "-INDEX">>
      [] OTHER -> <<"NSE:", Upper(s), "-EQ">>

\* The body of get_ltp after authentication: self.fyers.quotes(data) and the
\* reading of its response.  A response is
\*   throw : quotes() raises            notok : response['s'] is not 'ok'
\*   empty : response['d'] is empty     nov   : d[0] has no 'v' (KeyError)
\*   nolp  : v has no 'lp'              lp    : v['lp'] is the number lp
QuoteBody(resp) ==
    CASE resp.kind = "throw" -> [raised |-> TRUE, value |-> 0]
      [] resp.kind = "notok" -> [raised |-> FALSE, value |-> 0]
      [] resp.kind = "empty" -> [raised |-> FALSE, value |-> 0]
      [] resp.kind = "nov" -> [raised |-> TRUE, value |-> 0]
      [] resp.kind = "nolp" -> [raised |-> FALSE, value |-> 0]
      [] resp.kind = "lp" ->
            [raised |-> FALSE, value |-> IF resp.lp # 0 THEN resp.lp ELSE 0]

\* get_ltp: the quote request self.fyers.quotes(data) is issued only after
\* initialize_fyers_model returned True
QuoteEvents(init) == init.events \o (IF init.ok THEN <<"quote">> ELSE <<>>)

\* get_ltp, the "except Exception" branch
OnQuoteErrorReraise(r) == r

OnQuoteError(r) == [raised |-> FALSE, value |-> 0]

\* main_v2.py FyersAPI.get_ltp
get_ltp_v2(a, authOk, resp) ==
    LET init == initialize_fyers_model_v2(a, authOk)
        body == QuoteBody(resp)
        out == IF ~init.ok THEN [raised |-> FALSE, value |-> 0]
               ELSE IF body.raised THEN OnQuoteError(body)
               ELSE body
    IN [api |-> init.api, raised |-> out.raised, value |-> out.value,
        events |-> QuoteEvents(init)]

\* main.py FyersAPI.get_ltp: authenticates only while self.fyers is unset
get_ltp_main(a, authOk, resp) ==
    LET init == IF a.fyers THEN [api |-> a, ok |-> TRUE, events |-> <<>>]
                ELSE initialize_fyers_model_main(a, authOk)
        body == QuoteBody(resp)
        out == IF ~init.ok THEN [raised |-> FALSE, value |-> 0]
               ELSE IF body.raised THEN OnQuoteError(body)
               ELSE body
    IN [api |-> init.api, raised |-> out.raised, value |-> out.value,
        events |-> QuoteEvents(init)]

\* main_v2.py FyersAPI.calculate_margin
calculate_margin_fifth(l, lot_size) == (l * lot_size) \div 5

calculate_margin(l, lot_size) == l * lot_size

-----------------------------------------------------------------------------
(* Specification of get_ltp: a FyersAPI instance is constructed and get_ltp *)
(* is called on it again and again, each call with an authentication        *)
(* outcome and a quote response drawn from the sets below.                  *)

LpValues == {0, 0 - 1, NaN, Rs(200), Rs(400)}
Responses ==
    [kind : {"throw", "notok", "empty", "nov", "nolp"}, lp : {0}]
    \cup [kind : {"lp"}, lp : LpValues]

\* generate_access_token is not consulted once a token is held
AuthOutcomes(a) == IF a.access_token THEN {TRUE} ELSE BOOLEAN

InitQuote ==
    /\ api = NoApi
    /\ quote = NoQuote
    /\ mode \in {"main_v2", "main"}
    /\ pc = "idle" /\ csvFile = NoFile /\ margin_filter = 0
    /\ symbols = <<>> /\ idx = 0 /\ all_results = <<>>
    /\ filtered = <<>> /\ cur = NoCur /\ calls = <<>> /\ outcomes = <<>>
    /\ log = <<>> /\ report = NoReport
    /\ StrikeIdle /\ LoadIdle /\ ExpiryIdle /\ AuthIdle

GetLtpV2 ==
    /\ mode = "main_v2"
    /\ \E s \in Symbols, authOk \in AuthOutcomes(api), resp \in Responses :
          LET r == get_ltp_v2(api, authOk, resp)
          IN /\ api' = r.api
             /\ quote' = [impl |-> "main_v2",
                          symbol |-> convert_symbol_to_fyers_format(s),
                          before |-> api, authOk |-> authOk,
                          resp |-> resp, raised |-> r.raised, value |-> r.value]
    /\ UNCHANGED <<strikeVars, loadVars, runVars, expiryVars, auth>>

GetLtpMain ==
    /\ mode = "main"
    /\ \E s \in Symbols, authOk \in AuthOutcomes(api), resp \in Responses :
          LET r == get_ltp_main(api, authOk, resp)
          IN /\ api' = r.api
             /\ quote' = [impl |-> "main",
                          symbol |-> convert_symbol_to_fyers_format(s),
                          before |-> api, authOk |-> authOk,
                          resp |-> resp, raised |-> r.raised, value |-> r.value]
    /\ UNCHANGED <<strikeVars, loadVars, runVars, expiryVars, auth>>

NextQuote == GetLtpV2 \/ GetLtpMain

SpecQuote == InitQuote /\ [][NextQuote]_vars

-----------------------------------------------------------------------------
(* Claims about get_ltp *)

\* authentication is unavailable to the call: no token is held and none is
\* obtained
AuthUnavailable(q) == ~q.before.access_token /\ ~q.authOk

\* the cases in which C8 names the sentinel
SentinelCase(q) ==
    \/ AuthUnavailable(q)
    \/ q.resp.kind = "notok"                        \* status is not 'ok'
    \/ q.resp.kind = "empty"                        \* the data list is empty
    \/ q.resp.kind \in {"nov", "nolp"}              \* the price field is missing
    \/ (q.resp.kind = "lp" /\ q.resp.lp = 0)        \* the price is zero
    \/ q.resp.kind = "throw"                        \* the request throws

\* C8: get_ltp never raises; it returns the sentinel 0.0 whenever
\* authentication is unavailable, the status is not 'ok', the data list is
\* empty, the price field is missing or zero, or the request throws, and
\* only otherwise returns the quoted last price.
C8_GetLtpNeverRaises ==
    (quote.impl # "none")
    => /\ ~quote.raised
       /\ SentinelCase(quote) => quote.value = 0
       /\ ~SentinelCase(quote) => quote.value = quote.resp.lp

\* a call whose request threw returned the sentinel, and a call on an
\* instance that could not authenticate did too
C8_Witness ==
    /\ quote.impl = "main_v2"
    /\ quote.before.authenticated
    /\ quote.resp.kind = "throw"
    /\ ~quote.raised /\ quote.value = 0

-----------------------------------------------------------------------------
(* FyersAPI.generate_access_token: the login choreography, step by step.    *)
(* main_v2.py and main.py run the same five requests in the same order.     *)

\* the five requests, in source order
AuthSteps == <<"send_login_otp", "verify_otp", "verify_pin", "token",
               "generate_token">>

\* What a request can answer:
\*   throw : the request or .json() raises
\*   error : the answer's 's' is not 'ok'
\*   nokey : 's' is 'ok', the field read from the answer is missing (KeyError)
\*   ok    : 's' is 'ok' and the field holds value
\* The field is request_key (steps 1 and 2), data.access_token (step 3), the
\* auth_code of Url (step 4) and access_token (step 5).
Keys == {"k1", "k2"}
StepAnswers ==
    [kind : {"throw", "error", "nokey"}, value : {""}]
    \cup [kind : {"ok"}, value : Keys]

\* a step that only a thrown request stops
StepRaisesOnThrowOnly(answer) == answer.kind = "throw"

\* the step ends in the "except Exception" branch
StepRaises(answer) == answer.kind # "ok"

\* one step of generate_access_token on the record a of the call: the request
\* is issued with the value held from the step before, then either the
\* function returns None from its except branch or it goes on to the next
\* step; after the fifth step it returns the token.
AuthStep(a, i, answer) ==
    LET sent == [step |-> AuthSteps[i], with |-> a.held]
    IN IF StepRaises(answer)
       THEN [a EXCEPT !.pc = "returned",
                      !.issued = Append(@, sent),
                      !.answers = Append(@, answer),
                      !.held = "",
                      !.result = "None"]
       ELSE [a EXCEPT !.pc = IF i < Len(AuthSteps) THEN AuthSteps[i + 1]
                             ELSE "returned",
                      !.issued = Append(@, sent),
                      !.answers = Append(@, answer),
                      !.held = answer.value,
                      !.result = IF i < Len(AuthSteps) THEN "pending"
                                 ELSE answer.value]

\* self.access_token = token_response['access_token']
StoreToken(api_, a) ==
    IF a.pc = "returned" /\ a.result # "None"
    THEN [api_ EXCEPT !.access_token = TRUE]
    ELSE api_

-----------------------------------------------------------------------------
(* Specification of generate_access_token: one call on a fresh FyersAPI     *)
(* instance, each request answered by a value drawn from StepAnswers.       *)

InitAuth ==
    /\ auth \in [impl : {"main_v2", "main"}, pc : {AuthSteps[1]},
                 issued : {<<>>}, answers : {<<>>}, held : {""},
                 result : {"pending"}]
    /\ api = NoApi /\ quote = NoQuote
    /\ StrikeIdle /\ LoadIdle /\ RunIdle /\ ExpiryIdle

\* Step 1: Send login OTP
SendLoginOtp ==
    /\ auth.pc = AuthSteps[1]
    /\ \E answer \in StepAnswers : auth' = AuthStep(auth, 1, answer)
    /\ UNCHANGED <<api, quote, strikeVars, loadVars, runVars, expiryVars>>

\* Step 2: Verify OTP using TOTP
VerifyOtp ==
    /\ auth.pc = AuthSteps[2]
    /\ \E answer \in StepAnswers : auth' = AuthStep(auth, 2, answer)
    /\ UNCHANGED <<api, quote, strikeVars, loadVars, runVars, expiryVars>>

\* Step 3: Verify PIN
VerifyPin ==
    /\ auth.pc = AuthSteps[3]
    /\ \E answer \in StepAnswers : auth' = AuthStep(auth, 3, answer)
    /\ UNCHANGED <<api, quote, strikeVars, loadVars, runVars, expiryVars>>

\* Step 4: Generate auth code
RequestAuthCode ==
    /\ auth.pc = AuthSteps[4]
    /\ \E answer \in StepAnswers : auth' = AuthStep(auth, 4, answer)
    /\ UNCHANGED <<api, quote, strikeVars, loadVars, runVars, expiryVars>>

\* Step 5: Generate access token, store it and return it
GenerateToken ==
    /\ auth.pc = AuthSteps[5]
    /\ \E answer \in StepAnswers :
          /\ auth' = AuthStep(auth, 5, answer)
          /\ api' = StoreToken(api, auth')
    /\ UNCHANGED <<quote, strikeVars, loadVars, runVars, expiryVars>>

NextAuth ==
    \/ SendLoginOtp
    \/ VerifyOtp
    \/ VerifyPin
    \/ RequestAuthCode
    \/ GenerateToken

SpecAuth == InitAuth /\ [][NextAuth]_vars

-----------------------------------------------------------------------------
(* Claims about generate_access_token *)

\* the answer is a success: status 'ok' and the field the function reads
Succeeded(answer) == answer.kind = "ok"
AllSucceeded(answers) == \A j \in 1..Len(answers) : Succeeded(answers[j])
Returned == auth.pc = "returned"

\* C15: generate_access_token issues its steps in the fixed order send login
\* OTP, verify OTP, verify PIN, request auth code, generate token; a step is
\* issued only if every earlier step answered 'ok'; the token is stored and
\* returned only when all five steps succeeded; on a failed step or an
\* exception the function returns None, issues no later step and leaves
\* access_token unset.
C15_LoginStepsInOrderAllOrNothing ==
    auth.impl # "none" =>
        /\ Len(auth.issued) <= Len(AuthSteps)
        /\ Len(auth.answers) = Len(auth.issued)
        /\ \A i \in 1..Len(auth.issued) :
              /\ auth.issued[i].step = AuthSteps[i]
              /\ \A j \in 1..(i - 1) : Succeeded(auth.answers[j])
        /\ (api.access_token \/ auth.result \in Keys) =>
              /\ Returned
              /\ Len(auth.answers) = Len(AuthSteps)
              /\ AllSucceeded(auth.answers)
              /\ auth.result = auth.answers[Len(AuthSteps)].value
              /\ api.access_token
        /\ (\E j \in 1..Len(auth.answers) : ~Succeeded(auth.answers[j])) =>
              /\ Returned
              /\ auth.result = "None"
              /\ ~Succeeded(auth.answers[Len(auth.answers)])
              /\ ~api.access_token
        /\ (~Returned) => (auth.result = "pending" /\ ~api.access_token)

\* a call whose first three steps succeeded and whose fourth answered with an
\* error: None is returned after four requests
C15_Witness ==
    /\ Returned
    /\ Len(auth.issued) = 4
    /\ auth.answers[4].kind = "error"
    /\ auth.result = "None"
    /\ ~api.access_token

-----------------------------------------------------------------------------
(* Calendar: datetime / dateutil as get_expiry_code uses them *)

\* number of years after 2024 the dates of the model are drawn from
MaxYears == 2
Years == 2024 .. (2024 + MaxYears)

IsLeap(y) == (y % 4 = 0) /\ ((y % 100 # 0) \/ (y % 400 = 0))
DaysInMonth(y, m) ==
    IF m = 2 THEN (IF IsLeap(y) THEN 29 ELSE 28)
    ELSE IF m \in {4, 6, 9, 11} THEN 30 ELSE 31

\* date.toordinal(): 0001-01-01 is day 1
DaysBeforeYear(y) ==
    LET p == y - 1 IN p * 365 + p \div 4 - p \div 100 + p \div 400
RECURSIVE DaysBeforeMonth(_, _)
DaysBeforeMonth(y, m) ==
    IF m = 1 THEN 0 ELSE DaysBeforeMonth(y, m - 1) + DaysInMonth(y, m - 1)
ToOrdinal(t) == DaysBeforeYear(t.y) + DaysBeforeMonth(t.y, t.m) + t.d

\* date.weekday(): Monday is 0
Weekday(t) == (ToOrdinal(t) + 6) % 7
\* dateutil's TH: Thursday
TH == 3

NextDay(t) ==
    IF t.d < DaysInMonth(t.y, t.m) THEN [t EXCEPT !.d = t.d + 1]
    ELSE IF t.m < 12 THEN [y |-> t.y, m |-> t.m + 1, d |-> 1]
    ELSE [y |-> t.y + 1, m |-> 1, d |-> 1]
PrevDay(t) ==
    IF t.d > 1 THEN [t EXCEPT !.d = t.d - 1]
    ELSE IF t.m > 1
    THEN [y |-> t.y, m |-> t.m - 1, d |-> DaysInMonth(t.y, t.m - 1)]
    ELSE [y |-> t.y - 1, m |-> 12, d |-> 31]
\* t + timedelta(days = n)
RECURSIVE AddDays(_, _)
AddDays(t, n) ==
    IF n = 0 THEN t
    ELSE IF n > 0 THEN AddDays(NextDay(t), n - 1)
    ELSE AddDays(PrevDay(t), n + 1)

\* t + relativedelta(weekday=TH(1)): the Thursday on or after t
NextThursday(t) == AddDays(t, (TH - Weekday(t) + 7) % 7)
\* t + relativedelta(day=31, weekday=TH(-1)): the day is set to the last day
\* of t's month, then moved back to a Thursday
LastThursday(t) ==
    LET eom == [t EXCEPT !.d = DaysInMonth(t.y, t.m)]
    IN AddDays(eom, 0 - ((Weekday(eom) - TH + 7) % 7))

\* "%02d" of a number below 100, "%y" of a year
Pad2(n) == IF n < 10 THEN "0" \o ToString(n) ELSE ToString(n)
StrfY(t) == Pad2(t.y % 100)
\* "%b", upper-cased
StrfB(t) ==
    <<"JAN", "FEB", "MAR", "APR", "MAY", "JUN",
      "JUL", "AUG", "SEP", "OCT", "NOV", "DEC">>[t.m]

-----------------------------------------------------------------------------
(* Expiry codes.  A code is the sequence of the pieces its f-string joins:  *)
(* <<yy, month name>> is a monthly code, <<yy, month character, dd>> a      *)
(* weekly one.                                                              *)

fyers_month_code == <<"1", "2", "3", "4", "5", "6", "7", "8", "9", "O", "N", "D">>

\* a calculator that gives every index a weekly code
get_expiry_code_weekly_indices(s, t) ==
    LET yy == StrfY(t)
        next_thursday == NextThursday(t)
        last_thursday == LastThursday(t)
    IN IF /\ Upper(s) \in {"NIFTY", "BANKNIFTY", "FINNIFTY", "MIDCPNIFTY"}
          /\ next_thursday # last_thursday
       THEN <<yy, fyers_month_code[next_thursday.m], Pad2(next_thursday.d)>>
       ELSE <<yy, StrfB(t)>>

\* main_v2.py Utils.get_expiry_code, with the date datetime.now() returned
get_expiry_code_v2(s, t) ==
    LET yy == StrfY(t)
        next_thursday == NextThursday(t)
        last_thursday == LastThursday(t)
    IN IF /\ Upper(s) \in {"NIFTY", "BANKNIFTY", "FINNIFTY", "MIDCPNIFTY"}
          /\ next_thursday # last_thursday
          /\ Upper(s) = "NIFTY"
       THEN <<yy, fyers_month_code[next_thursday.m], Pad2(next_thursday.d)>>
       ELSE <<yy, StrfB(t)>>

\* main.py get_expiry_code, with the date datetime.now() returned
get_expiry_code_main(index, t) ==
    LET yy == StrfY(t)
        next_thursday == NextThursday(t)
        last_thursday == LastThursday(t)
    IN IF /\ index \in {"BANKNIFTY", "STOCK", "NIFTY"}
          /\ next_thursday # last_thursday
       THEN <<yy, fyers_month_code[t.m], Pad2(next_thursday.d)>>
       ELSE <<yy, StrfB(t)>>

-----------------------------------------------------------------------------
(* Specification of the expiry-code calculators: each is applied once to a  *)
(* symbol on a date drawn from the years of the model.                      *)

Dates ==
    {[y |-> yr, m |-> mo, d |-> dy] : yr \in Years, mo \in 1..12, dy \in 1..31}
ValidDates == {t \in Dates : t.d <= DaysInMonth(t.y, t.m)}
ExpirySymbols == Symbols \cup {"FINNIFTY", "MIDCPNIFTY", "nifty", "STOCK"}

InitExpiry ==
    /\ now \in ValidDates
    /\ symbol \in ExpirySymbols
    /\ expiry = NoExpiry
    /\ ltp = 0 /\ intervals = <<>> /\ atm = NoCall
    /\ LoadIdle /\ RunIdle /\ QuoteIdle /\ AuthIdle

GetExpiryV2 ==
    /\ expiry.impl = "none"
    /\ expiry' = [impl |-> "main_v2", code |-> get_expiry_code_v2(symbol, now)]
    /\ UNCHANGED <<now, strikeVars, loadVars, runVars, quoteVars, auth>>

GetExpiryMain ==
    /\ expiry.impl = "none"
    /\ expiry' = [impl |-> "main", code |-> get_expiry_code_main(symbol, now)]
    /\ UNCHANGED <<now, strikeVars, loadVars, runVars, quoteVars, auth>>

NextExpiry == GetExpiryV2 \/ GetExpiryMain

SpecExpiry == InitExpiry /\ [][NextExpiry]_vars

-----------------------------------------------------------------------------
(* Claims about the expiry codes *)

\* the calendar as the claims speak of it
FirstThursdayOnOrAfter(t) ==
    CHOOSE u \in {AddDays(t, k) : k \in 0..6} : Weekday(u) = TH
LastThursdayOfMonth(y, m) ==
    LET thursdays == {dy \in 1..DaysInMonth(y, m) :
                          Weekday([y |-> y, m |-> m, d |-> dy]) = TH}
    IN [y |-> y, m |-> m,
        d |-> CHOOSE dy \in thursdays : \A e \in thursdays : e <= dy]
MonthCharacter(m) ==
    IF m <= 9 THEN ToString(m)
    ELSE IF m = 10 THEN "O" ELSE IF m = 11 THEN "N" ELSE "D"
\* the year digits of both codes are those of today
WeeklyCode(t) ==
    LET u == FirstThursdayOnOrAfter(t)
    IN <<StrfY(t), MonthCharacter(u.m), Pad2(u.d)>>
MonthlyCode(t) == <<StrfY(t), StrfB(t)>>
IsWeekly(code) == Len(code) = 3
IsMonthly(code) == Len(code) = 2

\* C11: in main_v2, get_expiry_code returns for NIFTY the weekly code of the
\* first Thursday on or after today (year digits, month character, two-digit
\* day) unless that Thursday is the last Thursday of the current month, and
\* then the monthly code (year digits, three-letter month); for every other
\* symbol it returns the monthly code of the current month.
C11_ExpiryCodeFollowsSymbolRule ==
    expiry.impl = "main_v2" =>
        expiry.code =
            IF /\ Upper(symbol) = "NIFTY"
               /\ FirstThursdayOnOrAfter(now) # LastThursdayOfMonth(now.y, now.m)
            THEN WeeklyCode(now)
            ELSE MonthlyCode(now)

\* a weekly code was returned for NIFTY whose Thursday falls in the next month
C11_Witness ==
    /\ expiry.impl = "main_v2"
    /\ symbol = "NIFTY"
    /\ IsWeekly(expiry.code)
    /\ FirstThursdayOnOrAfter(now).m # now.m

\* the date or month a code denotes
TwoDigits(s) == CHOOSE n \in 0..99 : Pad2(n) = s
MonthNamed(s) == CHOOSE m \in 1..12 : StrfB([y |-> 0, m |-> m, d |-> 1]) = s
MonthOfCharacter(c) == CHOOSE m \in 1..12 : MonthCharacter(m) = c
CenturyOf(t) == t.y - (t.y % 100)
ExpiryDenoted(code, t) ==
    IF IsMonthly(code)
    THEN LastThursdayOfMonth(CenturyOf(t) + TwoDigits(code[1]), MonthNamed(code[2]))
    ELSE [y |-> CenturyOf(t) + TwoDigits(code[1]),
          m |-> MonthOfCharacter(code[2]),
          d |-> TwoDigits(code[3])]

\* C20: in main_v2, the code get_expiry_code returns never denotes an expiry
\* earlier than the current date: a monthly code names a month whose last
\* Thursday is today or later, a weekly code names a date today or later.
C20_ExpiryNotBeforeToday ==
    expiry.impl = "main_v2" =>
        ToOrdinal(ExpiryDenoted(expiry.code, now)) >= ToOrdinal(now)

\* C21: in main.py, whenever get_expiry_code returns a weekly code, the month
\* character and the two-digit day of the code are the month and the day of
\* one calendar date, the first Thursday on or after today, also when that
\* Thursday falls in the month after the current one.
C21_WeeklyCodeMonthAndDayOfOneDate ==
    (expiry.impl = "main" /\ IsWeekly(expiry.code)) =>
        LET u == FirstThursdayOnOrAfter(now)
        IN /\ expiry.code[2] = MonthCharacter(u.m)
           /\ expiry.code[3] = Pad2(u.d)

-----------------------------------------------------------------------------
(* LTPMarginCalculator *)

\* Config.MAX_MARGIN_FILTER, in rupees
MAX_MARGIN_FILTER == 20000

\* main_v2.py read_symbols_from_csv, the except branch; partial is the list
\* built before the exception
OnReadError(partial) == <<>>

\* the "for row in reader" loop of read_symbols_from_csv, from row i on: it
\* stops at the first row that raises (KeyError on a missing column,
\* ValueError on a lot size that is no integer)
RECURSIVE ReadRows(_, _, _)
ReadRows(file, i, acc) ==
    IF i > Len(file.rows)
    THEN [raised |-> FALSE, symbols |-> acc]
    ELSE LET row == file.rows[i]
         IN IF ~HasColumn(file.header, "Symbol")
            THEN [raised |-> TRUE, symbols |-> acc]
            ELSE IF ~HasColumn(file.header, "Lot Size")
            THEN [raised |-> TRUE, symbols |-> acc]
            ELSE IF ~row.lot.numeric
            THEN [raised |-> TRUE, symbols |-> acc]
            ELSE ReadRows(file, i + 1,
                          Append(acc, <<Strip(row.sym), row.lot.val>>))

\* main_v2.py LTPMarginCalculator.read_symbols_from_csv
read_symbols_from_csv(file) ==
    IF ~file.exists
    THEN <<>>
    ELSE LET r == ReadRows(file, 1, <<>>)
         IN IF r.raised THEN OnReadError(r.symbols) ELSE r.symbols

\* main_v2.py Utils.create_option_symbol, called when datetime.now() is t:
\* the pieces of the identifier its f-string joins
OptionBase(s) == IF Upper(s) = "NIFTY NEXT 50" THEN "NIFTYNXT50" ELSE Upper(s)
create_option_symbol(s, strike, option_type, t) ==
    <<"NSE:", OptionBase(s), get_expiry_code_v2(s, t), strike, option_type>>

\* process_symbol, "Calculate ATM strike": math.ceil raises ValueError on nan
StrikeOrRaise(l, s, table) ==
    IF l = NaN
    THEN [impl |-> "main_v2", raised |-> TRUE, interval |-> 0, value |-> 0]
    ELSE calculate_atm_strike_v2(l, s, table)

\* process_symbol, "Calculate margins"
MarginOf(l, lot_size) == IF Gt0(l) THEN calculate_margin(l, lot_size) ELSE 0

\* main.py LTPMarginCalculator.filter_by_margin
RECURSIVE filter_by_margin_main(_, _)
filter_by_margin_main(results, limit) ==
    IF results = <<>>
    THEN <<>>
    ELSE LET result == Head(results)
             rest == filter_by_margin_main(Tail(results), limit)
         IN IF \/ (result.ce_margin > 0 /\ result.ce_margin <= limit)
               \/ (result.pe_margin > 0 /\ result.pe_margin <= limit)
            THEN <<result>> \o rest
            ELSE rest

\* a filter without the lower limit 0 < margin
RECURSIVE filter_by_margin_no_floor(_, _)
filter_by_margin_no_floor(results, limit) ==
    IF results = <<>>
    THEN <<>>
    ELSE LET result == Head(results)
             rest == filter_by_margin_no_floor(Tail(results), limit)
         IN IF result.ce_margin <= limit \/ result.pe_margin <= limit
            THEN <<result>> \o rest
            ELSE rest

\* main_v2.py LTPMarginCalculator.filter_by_margin
RECURSIVE filter_by_margin(_, _)
filter_by_margin(results, limit) ==
    IF results = <<>>
    THEN <<>>
    ELSE LET result == Head(results)
             ce_within_limit == 0 < result.ce_margin /\ result.ce_margin <= limit
             pe_within_limit == 0 < result.pe_margin /\ result.pe_margin <= limit
             rest == filter_by_margin(Tail(results), limit)
         IN IF ce_within_limit \/ pe_within_limit
            THEN <<result>> \o rest
            ELSE rest

\* main_v2.py format_output: the line of one contract
ContractLine(result, option_type) ==
    <<"contract", result.symbol, result.ltp, <<result.atm_strike, option_type>>,
      IF option_type = "CE" THEN result.ce_ltp ELSE result.pe_ltp,
      IF option_type = "CE" THEN result.ce_margin ELSE result.pe_margin>>

\* main_v2.py format_output, the loop over the results
RECURSIVE ResultLines(_, _)
ResultLines(results, limit) ==
    IF results = <<>>
    THEN <<>>
    ELSE LET result == Head(results)
             ce == IF 0 < result.ce_margin /\ result.ce_margin <= limit
                   THEN <<ContractLine(result, "CE")>> ELSE <<>>
             pe == IF 0 < result.pe_margin /\ result.pe_margin <= limit
                   THEN <<ContractLine(result, "PE")>> ELSE <<>>
         IN ce \o pe \o ResultLines(Tail(results), limit)

\* the seven heading lines and the closing line of the report
ReportHead(limit) ==
    <<<<"rule">>, <<"title">>, <<"filter", limit>>, <<"rule">>, <<"blank">>,
      <<"columns">>, <<"dashes">>>>

\* a report that prints both contracts of every result
RECURSIVE BothLines(_)
BothLines(results) ==
    IF results = <<>>
    THEN <<>>
    ELSE <<ContractLine(Head(results), "CE"), ContractLine(Head(results), "PE")>>
         \o BothLines(Tail(results))
format_output_both_contracts(results, limit) ==
    ReportHead(limit) \o BothLines(results) \o <<<<"dashes">>>>

\* main_v2.py LTPMarginCalculator.format_output: the lines it joins
format_output(results, limit) ==
    ReportHead(limit) \o ResultLines(results, limit) \o <<<<"dashes">>>>

\* run, "Rate limiting": if i < len(symbols): time.sleep(Config.API_DELAY).
\* app.py index has no sleep.
RateLimit(m, i, n) == IF m = "cli" /\ i < n THEN <<"sleep">> ELSE <<>>

\* run / index: where the loop goes after the i-th of n instruments, whose
\* call ended with outcome ("result", "noquote" or "error")
AfterSymbolStopOnNone(outcome, i, n) ==
    IF i < n /\ outcome = "result" THEN "loop" ELSE "filter"

AfterSymbol(outcome, i, n) == IF i < n THEN "loop" ELSE "filter"

-----------------------------------------------------------------------------
(* Specification of the option identifiers: process_symbol from the ATM     *)
(* strike to the CE and the PE identifier of one instrument.  Each          *)
(* create_option_symbol call reads the clock anew, and the clock goes on    *)
(* between the two readings.                                                *)

\* what datetime.now() can read when its last reading was t
ClockFrom(t) == {AddDays(t, k) : k \in 0..MaxDays}

OptionSymbols == {"NIFTY", "BANKNIFTY", "ACME", "acme", "NIFTY NEXT 50"}
OptionLtps == {Rs(212), Rs(24020) + 1}

InitOption ==
    /\ symbol \in OptionSymbols
    /\ ltp \in OptionLtps
    /\ intervals = get_default_intervals
    /\ atm = NoCall
    /\ now \in ValidDates
    /\ expiry = NoExpiry
    /\ pc = "strike" /\ cur = NoCur
    /\ mode = "cli" /\ csvFile = NoFile /\ margin_filter = 0
    /\ symbols = <<>> /\ idx = 0 /\ all_results = <<>> /\ filtered = <<>>
    /\ calls = <<>> /\ outcomes = <<>> /\ log = <<>> /\ report = NoReport
    /\ LoadIdle /\ QuoteIdle /\ AuthIdle

\* atm_strike = Utils.calculate_atm_strike(ltp, symbol, self.strike_intervals)
\* ce_symbol = Utils.create_option_symbol(symbol, atm_strike, 'CE')
BuildCE ==
    /\ pc = "strike"
    /\ atm' = calculate_atm_strike_v2(ltp, symbol, intervals)
    /\ \E t \in ClockFrom(now) :
          /\ now' = t
          /\ cur' = [NoCur EXCEPT
                        !.ltp = ltp,
                        !.atm_strike = atm'.value,
                        !.ce_symbol =
                            create_option_symbol(symbol, atm'.value, "CE", t)]
    /\ pc' = "ce_built"
    /\ UNCHANGED <<ltp, symbol, intervals, expiry, mode, csvFile, margin_filter,
                   symbols, idx, all_results, filtered, calls, outcomes, log,
                   report, loadVars, quoteVars, auth>>

\* pe_symbol = Utils.create_option_symbol(symbol, atm_strike, 'PE')
BuildPE ==
    /\ pc = "ce_built"
    /\ \E t \in ClockFrom(now) :
          /\ now' = t
          /\ cur' = [cur EXCEPT
                        !.pe_symbol =
                            create_option_symbol(symbol, cur.atm_strike, "PE", t)]
    /\ pc' = "built"
    /\ UNCHANGED <<strikeVars, expiry, mode, csvFile, margin_filter,
                   symbols, idx, all_results, filtered, calls, outcomes, log,
                   report, loadVars, quoteVars, auth>>

NextOption == BuildCE \/ BuildPE

SpecOption == InitOption /\ [][NextOption]_vars

-----------------------------------------------------------------------------
(* Claims about the option identifiers *)

\* C12: the CE and the PE identifier of an instrument are each 'NSE:' +
\* option base name + expiry code + strike + option type, and they are the
\* same (base, expiry code, strike) except for the final 'CE' / 'PE', also
\* when they are built at different clock instants.
C12_IdentifiersDifferOnlyInSuffix ==
    pc = "built" =>
        LET ce == cur.ce_symbol
            pe == cur.pe_symbol
        IN /\ Len(ce) = 5 /\ Len(pe) = 5
           /\ ce[1] = "NSE:" /\ pe[1] = "NSE:"
           /\ ce[2] = pe[2]
           /\ ce[3] = pe[3]
           /\ ce[4] = cur.atm_strike /\ pe[4] = cur.atm_strike
           /\ ce[5] = "CE" /\ pe[5] = "PE"

-----------------------------------------------------------------------------
(* Specification of a run: main_v2.py LTPMarginCalculator.run ("cli") and   *)
(* app.py index ("web") over an instrument file, with the authentication   *)
(* outcomes and the quote responses drawn as the calls are made.            *)

CsvRows ==
    {[sym |-> "NIFTY", lot |-> [numeric |-> TRUE, val |-> 50]],
     [sym |-> " ACME ", lot |-> [numeric |-> TRUE, val |-> 100]],
     [sym |-> "ACME", lot |-> [numeric |-> FALSE, val |-> 0]]}
\* what the vendor answers for an underlying and for an option contract
FailedResponses == [kind : {"throw", "notok", "empty", "nov", "nolp"}, lp : {0}]
UnderlyingResponses ==
    FailedResponses \cup [kind : {"lp"}, lp : {0, NaN, Rs(24020) + 1}]
OptionResponses ==
    FailedResponses \cup [kind : {"lp"}, lp : {0, 0 - 1, Rs(200), Rs(400)}]

CsvHeaders == {<<"Symbol", "Lot Size">>, <<"Symbol", "Lots">>}
CsvFiles ==
    {NoFile} \cup
    [exists : {TRUE}, dateLine : {FALSE}, header : CsvHeaders,
     rows : SeqsUpTo(CsvRows, MaxRows)]

\* the dates of the runs of this specification: a Thursday that is not the
\* month's last, and the last day of a year.  The date does not change
\* while a run is under way; process_symbol across midnight is the subject
\* of the specification of the option identifiers.
RunDates == {[y |-> 2026, m |-> 11, d |-> 5], [y |-> 2026, m |-> 12, d |-> 31]}

InitRun ==
    /\ mode \in {"cli", "web"}
    /\ pc = "start"
    /\ csvFile \in CsvFiles
    /\ margin_filter = Rs(MAX_MARGIN_FILTER)
    /\ gapsFile = NoFile
    /\ loaded = load_strike_intervals_v2(gapsFile)
    /\ intervals = loaded.table
    /\ api = NoApi
    /\ symbols = <<>> /\ idx = 0 /\ all_results = <<>> /\ filtered = <<>>
    /\ cur = NoCur /\ calls = <<>> /\ outcomes = <<>>
    /\ ltp = 0 /\ symbol = "NIFTY" /\ atm = NoCall
    /\ quote = NoQuote
    /\ log = <<>> /\ report = NoReport
    /\ now \in RunDates /\ expiry = NoExpiry
    /\ AuthIdle

\* symbols = self.read_symbols_from_csv(); if not symbols: return
ReadSymbols ==
    /\ (mode = "cli" /\ pc = "start") \/ (mode = "web" /\ pc = "read")
    /\ symbols' = read_symbols_from_csv(csvFile)
    /\ pc' = IF symbols' = <<>> THEN "exit_no_symbols"
             ELSE IF mode = "cli" THEN "auth" ELSE "loop"
    /\ UNCHANGED <<mode, csvFile, margin_filter, idx, all_results, filtered,
                   cur, calls, outcomes, log, report, strikeVars, loadVars,
                   quoteVars, expiryVars, auth>>

\* run: if not self.fyers_api.initialize_fyers_model(): return
\* index: calculator.fyers_api.initialize_fyers_model(), result not looked at
InitApi ==
    /\ (mode = "cli" /\ pc = "auth") \/ (mode = "web" /\ pc = "start")
    /\ \E authOk \in AuthOutcomes(api) :
          LET r == initialize_fyers_model_v2(api, authOk)
          IN /\ api' = r.api
             /\ log' = log \o r.events
             /\ pc' = IF mode = "web" THEN "read"
                      ELSE IF r.ok THEN "loop" ELSE "exit_no_auth"
    /\ UNCHANGED <<mode, csvFile, margin_filter, symbols, idx, all_results,
                   filtered, cur, calls, outcomes, report, strikeVars, loadVars,
                   quote, expiryVars, auth>>

\* process_symbol up to the two option identifiers: the underlying's quote,
\* the ATM strike, then create_option_symbol for CE and for PE.  A call that
\* returns None here ends the loop iteration.
QuoteUnderlying ==
    /\ pc = "loop"
    /\ idx < Len(symbols)
    /\ \E authOk \in AuthOutcomes(api), resp \in UnderlyingResponses :
          LET sym == symbols[idx + 1][1]
              q == get_ltp_v2(api, authOk, resp)
              strike == StrikeOrRaise(q.value, sym, intervals)
              outcome == IF Le0(q.value) THEN "noquote"
                         ELSE IF strike.raised THEN "error"
                         ELSE "pending"
          IN /\ api' = q.api
             /\ calls' = Append(calls, symbols[idx + 1])
             /\ IF outcome = "pending"
                THEN /\ cur' = [ltp |-> q.value,
                                atm_strike |-> strike.value,
                                ce_symbol |-> create_option_symbol(
                                    sym, strike.value, "CE", now),
                                pe_symbol |-> create_option_symbol(
                                    sym, strike.value, "PE", now),
                                ce_ltp |-> 0, pe_ltp |-> 0, ce_margin |-> 0]
                     /\ log' = log \o q.events
                     /\ pc' = "ce"
                     /\ UNCHANGED <<idx, outcomes>>
                ELSE /\ cur' = NoCur
                     /\ outcomes' = Append(outcomes, outcome)
                     /\ idx' = idx + 1
                     /\ log' = log \o q.events
                                   \o RateLimit(mode, idx + 1, Len(symbols))
                     /\ pc' = AfterSymbol(outcome, idx + 1, Len(symbols))
    /\ UNCHANGED <<mode, csvFile, margin_filter, symbols, all_results, filtered,
                   report, strikeVars, loadVars, quote, expiryVars, auth>>

\* process_symbol: ce_ltp = self.fyers_api.get_ltp(ce_symbol)
QuoteCE ==
    /\ pc = "ce"
    /\ \E authOk \in AuthOutcomes(api), resp \in OptionResponses :
          LET q == get_ltp_v2(api, authOk, resp)
          IN /\ api' = q.api
             /\ cur' = [cur EXCEPT !.ce_ltp = q.value]
             /\ log' = log \o q.events
    /\ pc' = "pe"
    /\ UNCHANGED <<mode, csvFile, margin_filter, symbols, idx, all_results,
                   filtered, calls, outcomes, report, strikeVars, loadVars,
                   quote, expiryVars, auth>>

\* process_symbol from pe_ltp = self.fyers_api.get_ltp(pe_symbol) to its
\* return, the loop's "if result: all_results.append(result)" and its sleep
QuotePE ==
    /\ pc = "pe"
    /\ \E authOk \in AuthOutcomes(api), resp \in OptionResponses :
          LET sym == symbols[idx + 1][1]
              lot_size == symbols[idx + 1][2]
              q == get_ltp_v2(api, authOk, resp)
              result ==
                  [symbol |-> sym,
                   ltp |-> cur.ltp,
                   atm_strike |-> cur.atm_strike,
                   ce_symbol |-> cur.ce_symbol,
                   ce_ltp |-> cur.ce_ltp,
                   ce_margin |-> MarginOf(cur.ce_ltp, lot_size),
                   pe_symbol |-> cur.pe_symbol,
                   pe_ltp |-> q.value,
                   pe_margin |-> MarginOf(q.value, lot_size),
                   lot_size |-> lot_size]
          IN /\ api' = q.api
             /\ all_results' = Append(all_results, result)
             /\ log' = log \o q.events \o RateLimit(mode, idx + 1, Len(symbols))
    /\ cur' = NoCur
    /\ outcomes' = Append(outcomes, "result")
    /\ idx' = idx + 1
    /\ pc' = AfterSymbol("result", idx + 1, Len(symbols))
    /\ UNCHANGED <<mode, csvFile, margin_filter, symbols, filtered, calls,
                   report, strikeVars, loadVars, quote, expiryVars, auth>>

\* filtered_results = self.filter_by_margin(all_results).  run returns when
\* the list is empty and otherwise formats the report, prints it and writes
\* it to Config.OUTPUT_FILE, where open() or write() may fail; index hands
\* the list to the template.
Filter ==
    /\ pc = "filter"
    /\ filtered' = filter_by_margin(all_results, margin_filter)
    /\ IF mode = "cli" /\ filtered' # <<>>
       THEN \E saved \in BOOLEAN :
               report' = [lines |-> format_output(filtered', margin_filter),
                          written |-> saved]
       ELSE UNCHANGED report
    /\ pc' = "done"
    /\ UNCHANGED <<mode, csvFile, margin_filter, symbols, idx, all_results,
                   cur, calls, outcomes, log, strikeVars, loadVars,
                   quoteVars, expiryVars, auth>>

NextRun ==
    \/ ReadSymbols
    \/ InitApi
    \/ QuoteUnderlying
    \/ QuoteCE
    \/ QuotePE
    \/ Filter

SpecRun == InitRun /\ [][NextRun]_vars

\* run is one sequential thread: it goes on as long as it has a next step
SpecRunFair == SpecRun /\ WF_vars(NextRun)

-----------------------------------------------------------------------------
(* Claims about a run *)

\* C4: every result filter_by_margin returns has at least one of ce_margin,
\* pe_margin strictly greater than 0 and strictly under the margin threshold.
C4_FilteredStrictlyUnderThreshold ==
    \A i \in 1..Len(filtered) :
        \/ 0 < filtered[i].ce_margin /\ filtered[i].ce_margin < margin_filter
        \/ 0 < filtered[i].pe_margin /\ filtered[i].pe_margin < margin_filter

\* C5: in every result of main_v2 process_symbol, ce_margin = ce_ltp *
\* lot_size and pe_margin = pe_ltp * lot_size when the contract's LTP is
\* positive, and the margin is exactly 0 when it is not.
C5_MarginIsPriceTimesLot ==
    \A i \in 1..Len(all_results) :
        LET r == all_results[i]
        IN /\ Gt0(r.ce_ltp) => r.ce_margin = r.ce_ltp * r.lot_size
           /\ ~Gt0(r.ce_ltp) => r.ce_margin = 0
           /\ Gt0(r.pe_ltp) => r.pe_margin = r.pe_ltp * r.lot_size
           /\ ~Gt0(r.pe_ltp) => r.pe_margin = 0

\* a result with a positive CE quote and a negative PE quote
C5_Witness ==
    \E i \in 1..Len(all_results) :
        /\ all_results[i].ce_ltp = Rs(400)
        /\ all_results[i].ce_margin = Rs(400) * all_results[i].lot_size
        /\ all_results[i].pe_ltp < 0 /\ all_results[i].pe_ltp # NaN
        /\ all_results[i].pe_margin = 0

\* the instruments of the file, in file order
FileInstruments(file) ==
    [i \in 1..Len(file.rows) |-> <<Strip(file.rows[i].sym), file.rows[i].lot.val>>]

IsPrefix(p, q) == Len(p) <= Len(q) /\ \A i \in 1..Len(p) : p[i] = q[i]

InLoop == mode = "cli" /\ pc \in {"loop", "ce", "pe", "filter", "done"}

\* C6: after successful authentication and a load of n instruments, run
\* calls process_symbol exactly once for each of them, in file order,
\* whatever the outcome of the earlier ones (result, no quote, internal
\* error), and then reaches the filter step and terminates.
C6_EveryInstrumentProcessedInOrder ==
    /\ [](InLoop => /\ IsPrefix(calls, FileInstruments(csvFile))
                    /\ Len(outcomes) = idx
                    /\ Len(calls) = IF pc \in {"ce", "pe"} THEN idx + 1 ELSE idx
                    /\ pc \in {"filter", "done"}
                          => calls = FileInstruments(csvFile))
    /\ (mode = "cli" /\ pc = "loop") ~> (pc = "done")

\* a run that went on to the second instrument and to the filter after the
\* first instrument's call ended in an internal error
C6_Witness ==
    /\ mode = "cli" /\ pc = "done"
    /\ Len(calls) >= 2
    /\ calls = FileInstruments(csvFile)
    /\ outcomes[1] = "error"
    /\ outcomes[2] = "result"

\* read_symbols_from_csv has returned
HasRead ==
    \/ mode = "cli" /\ pc # "start"
    \/ mode = "web" /\ pc \notin {"start", "read"}

RowParses(file, i) ==
    /\ file.exists
    /\ HasColumn(file.header, "Symbol") /\ HasColumn(file.header, "Lot Size")
    /\ file.rows[i].lot.numeric

\* C7: when one row of the instrument file fails to parse, every row that
\* does parse is still returned by read_symbols_from_csv and processed.
C7_ParsedRowsSurviveBadRow ==
    HasRead =>
        \A i \in 1..Len(csvFile.rows) :
            RowParses(csvFile, i) =>
                \E j \in 1..Len(symbols) : symbols[j] = FileInstruments(csvFile)[i]

\* the quote requests and the rate-limiting sleeps of the log, in order
IsRequestOrSleep(e) == e \in {"quote", "sleep"}
Pacing == SelectSeq(log, IsRequestOrSleep)

\* C13: during main_v2 run, a delay separates every two consecutive quote
\* requests: no two quote requests (underlying, CE or PE, of the same or of
\* different instruments) are issued without a sleep between them.
C13_DelayBetweenQuoteRequests ==
    mode = "cli" =>
        \A i \in 1..(Len(Pacing) - 1) :
            ~(Pacing[i] = "quote" /\ Pacing[i + 1] = "quote")

IsAuthAttempt(e) == e \in {"auth_ok", "auth_failed"}

\* C14: once generate_access_token has failed, no further authentication
\* attempt is made during the rest of that command-line run or web request.
C14_NoAuthenticationRetry ==
    \A i \in 1..Len(log) :
        log[i] = "auth_failed" =>
            \A j \in (i + 1)..Len(log) : ~IsAuthAttempt(log[j])

\* the events the step appends to the log
NewEvents == SubSeq(log', Len(log) + 1, Len(log'))
IsAuthOrClient(e) == IsAuthAttempt(e) \/ e = "client"

\* C22: on a main_v2 FyersAPI instance, _authenticated = True implies that
\* access_token and the fyers client are set; once _authenticated is True it
\* stays True, and every later call of initialize_fyers_model or get_ltp
\* makes no authentication request and leaves access_token and the client
\* object as they are (no token is assigned, no client is constructed).
C22_AuthenticatedIsStable ==
    /\ [](api.authenticated => (api.access_token /\ api.fyers))
    /\ [][api.authenticated =>
              /\ api' = api
              /\ SelectSeq(NewEvents, IsAuthOrClient) = <<>>]_vars

\* an authenticated instance on which get_ltp was called again after the
\* call that authenticated it: one client construction, several quotes
C22_Witness ==
    /\ mode \in {"cli", "web"}
    /\ api.authenticated
    /\ Len(SelectSeq(log, IsAuthOrClient)) = 2
    /\ Len(SelectSeq(log, LAMBDA e : e = "quote")) >= 3

\* the filter has run
Filtered == mode \in {"cli", "web"} /\ pc = "done"

\* the test C17 and C18 name: the margin is in (0, margin_filter]
WithinLimit(margin) == 0 < margin /\ margin <= margin_filter
Passes(r) == WithinLimit(r.ce_margin) \/ WithinLimit(r.pe_margin)

\* C17: filter_by_margin (main_v2.py, used by run and by index, and main.py)
\* returns, in input order and unmodified, exactly the results with a CE or
\* a PE margin in (0, margin_filter]; a result whose margins are both 0 is
\* never returned; the filter applied to its own output returns that output.
C17_FilterKeepsExactlyResultsWithinLimit ==
    Filtered =>
        /\ filtered = SelectSeq(all_results, Passes)
        /\ filter_by_margin_main(all_results, margin_filter) = filtered
        /\ \A i \in 1..Len(filtered) :
              ~(filtered[i].ce_margin = 0 /\ filtered[i].pe_margin = 0)
        /\ filter_by_margin(filtered, margin_filter) = filtered
        /\ filter_by_margin_main(filtered, margin_filter) = filtered

\* of two results the filter dropped the first, whose margins are both 0,
\* and kept the second
C17_Witness ==
    /\ Filtered
    /\ Len(all_results) = 2
    /\ all_results[1].ce_margin = 0 /\ all_results[1].pe_margin = 0
    /\ filtered = <<all_results[2]>>

\* the contract lines of the report, and how many C18 expects
IsContractLine(line) == line[1] = "contract"
ContractLines == SelectSeq(report.lines, IsContractLine)
RECURSIVE LinesExpected(_)
LinesExpected(results) ==
    IF results = <<>>
    THEN 0
    ELSE (IF WithinLimit(Head(results).ce_margin) THEN 1 ELSE 0)
         + (IF WithinLimit(Head(results).pe_margin) THEN 1 ELSE 0)
         + LinesExpected(Tail(results))
LineOf(r, option_type) ==
    <<"contract", r.symbol, r.ltp, <<r.atm_strike, option_type>>,
      IF option_type = "CE" THEN r.ce_ltp ELSE r.pe_ltp,
      IF option_type = "CE" THEN r.ce_margin ELSE r.pe_margin>>
HasLine(line) == \E k \in 1..Len(ContractLines) : ContractLines[k] = line

\* C18: in main_v2, for the list filter_by_margin produced, format_output
\* emits one or two contract lines per result, the CE (PE) line exactly
\* when the CE (PE) margin is in (0, margin_filter]; no line shows a margin
\* of 0 or above the threshold.
C18_ReportLinesOnlyWithinLimit ==
    (mode = "cli" /\ pc = "done" /\ filtered # <<>>) =>
        /\ \A k \in 1..Len(ContractLines) : WithinLimit(ContractLines[k][6])
        /\ \A i \in 1..Len(filtered) :
              /\ WithinLimit(filtered[i].ce_margin) <=> HasLine(LineOf(filtered[i], "CE"))
              /\ WithinLimit(filtered[i].pe_margin) <=> HasLine(LineOf(filtered[i], "PE"))
              /\ LinesExpected(<<filtered[i]>>) \in {1, 2}
        /\ Len(ContractLines) = LinesExpected(filtered)

\* a report with the CE line of a result whose PE margin is above the
\* threshold, and no PE line for it
C18_Witness ==
    /\ mode = "cli" /\ pc = "done"
    /\ Len(filtered) = 1
    /\ WithinLimit(filtered[1].ce_margin)
    /\ filtered[1].pe_margin > margin_filter
    /\ ContractLines = <<LineOf(filtered[1], "CE")>>

-----------------------------------------------------------------------------
(* main.py: LTPMarginCalculator and the functions it calls *)

\* main.py create_option_symbol, called when datetime.now() is t
OptionBaseMain(s) == IF s = "NIFTY NEXT 50" THEN "NIFTYNXT50" ELSE s
create_option_symbol_main(s, strike, option_type, t) ==
    LET expiry_code ==
            IF s \in {"NIFTY", "BANKNIFTY", "FINNIFTY", "MIDCPNIFTY",
                      "NIFTY NEXT 50"}
            THEN get_expiry_code_main(s, t)
            ELSE get_expiry_code_main("STOCK", t)
    IN <<"NSE:", OptionBaseMain(s), expiry_code, strike, option_type>>

\* main.py LTPMarginCalculator.read_symbols_from_csv: open() of a missing
\* file raises inside the try
read_symbols_from_csv_main(file) ==
    LET r == IF file.exists THEN ReadRows(file, 1, <<>>)
             ELSE [raised |-> TRUE, symbols |-> <<>>]
    IN IF r.raised THEN <<>> ELSE r.symbols

\* main.py calculate_atm_strike as process_symbol calls it: the reference
\* file is loaded at every call; int() and math.floor raise ValueError on nan
StrikeOrRaiseMain(l, s, file) ==
    LET ld == load_strike_intervals_main(file)
    IN IF ld.raised \/ l = NaN
       THEN [impl |-> "main", raised |-> TRUE, interval |-> 0, value |-> 0]
       ELSE calculate_atm_strike_main(l, s, ld.table)

\* What the span_margin request can answer:
\*   throw    : requests.post or .json() raises
\*   fallback : the status code is not 200 or 's' is not 'ok'
\*   ok       : 's' is 'ok' and 'total' is the number total
SpanAnswers ==
    [kind : {"throw", "fallback"}, total : {0}]
    \cup [kind : {"ok"}, total : {0, Rs(15000)}]

\* main.py FyersAPI.get_margin_requirement for an option identifier (it
\* contains 'CE' or 'PE'), quantity qty
get_margin_requirement_main(a, authOk, span, resp, qty) ==
    LET init == IF a.fyers THEN [api |-> a, ok |-> TRUE, events |-> <<>>]
                ELSE initialize_fyers_model_main(a, authOk)
        q == get_ltp_main(init.api, authOk, resp)
    IN IF ~init.ok
       THEN [api |-> init.api, value |-> 0, events |-> init.events]
       ELSE IF span.kind = "throw"
       THEN [api |-> init.api, value |-> 0,
             events |-> init.events \o <<"span_margin">>]
       ELSE IF span.kind = "ok"
       THEN [api |-> init.api, value |-> span.total,
             events |-> init.events \o <<"span_margin">>]
       ELSE [api |-> q.api,
             value |-> IF Gt0(q.value) THEN q.value * qty ELSE 0,
             events |-> init.events \o <<"span_margin">> \o q.events]

\* main.py LTPMarginCalculator.format_output: after four heading lines,
\* output_lines.append() is called without an argument and raises TypeError
format_output_main(results, limit) ==
    [raised |-> TRUE,
     lines |-> <<<<"rule">>, <<"title">>, <<"filter", limit>>, <<"rule">>>>]

-----------------------------------------------------------------------------
(* Specification of a run of main.py: LTPMarginCalculator.run over an       *)
(* instrument file and a strike-interval reference file.                    *)

MainGapFiles ==
    {NoFile,
     [exists |-> TRUE, dateLine |-> TRUE, header |-> <<"Symbol", "Step Value">>,
      rows |-> <<[sym |-> "ACME", gap |-> [numeric |-> TRUE, val |-> Rs(50)]]>>]}

\* what the vendor answers for an option contract
MainOptionResponses ==
    [kind : {"throw", "notok"}, lp : {0}]
    \cup [kind : {"lp"}, lp : {Rs(200), Rs(400)}]

InitRunMain ==
    /\ mode = "main"
    /\ pc = "start"
    /\ csvFile \in CsvFiles
    /\ margin_filter = Rs(MAX_MARGIN_FILTER)
    /\ gapsFile \in MainGapFiles
    /\ loaded = NoLoad
    /\ intervals = <<>>
    /\ api = NoApi
    /\ symbols = <<>> /\ idx = 0 /\ all_results = <<>> /\ filtered = <<>>
    /\ cur = NoCur /\ calls = <<>> /\ outcomes = <<>>
    /\ ltp = 0 /\ symbol = "NIFTY" /\ atm = NoCall
    /\ quote = NoQuote
    /\ log = <<>> /\ report = NoReport
    /\ now \in RunDates /\ expiry = NoExpiry
    /\ AuthIdle

\* if not self.fyers_api.initialize_fyers_model(): return
MainInitApi ==
    /\ mode = "main" /\ pc = "start"
    /\ \E authOk \in AuthOutcomes(api) :
          LET r == initialize_fyers_model_main(api, authOk)
          IN /\ api' = r.api
             /\ log' = log \o r.events
             /\ pc' = IF r.ok THEN "read" ELSE "exit_no_auth"
    /\ UNCHANGED <<mode, csvFile, margin_filter, symbols, idx, all_results,
                   filtered, cur, calls, outcomes, report, strikeVars, loadVars,
                   quote, expiryVars, auth>>

\* symbols = self.read_symbols_from_csv(); if not symbols: return
MainReadSymbols ==
    /\ mode = "main" /\ pc = "read"
    /\ symbols' = read_symbols_from_csv_main(csvFile)
    /\ pc' = IF symbols' = <<>> THEN "exit_no_symbols" ELSE "loop"
    /\ UNCHANGED <<mode, csvFile, margin_filter, idx, all_results, filtered,
                   cur, calls, outcomes, log, report, strikeVars, loadVars,
                   quoteVars, expiryVars, auth>>

\* process_symbol up to the two option identifiers.  A call that returns
\* None here ends the loop iteration, which sleeps one second.
MainQuoteUnderlying ==
    /\ mode = "main" /\ pc = "loop"
    /\ idx < Len(symbols)
    /\ \E authOk \in AuthOutcomes(api), resp \in UnderlyingResponses :
          LET sym == symbols[idx + 1][1]
              q == get_ltp_main(api, authOk, resp)
              strike == StrikeOrRaiseMain(q.value, sym, gapsFile)
              outcome == IF Le0(q.value) THEN "noquote"
                         ELSE IF strike.raised THEN "error"
                         ELSE "pending"
          IN /\ api' = q.api
             /\ calls' = Append(calls, symbols[idx + 1])
             /\ IF outcome = "pending"
                THEN /\ cur' = [ltp |-> q.value,
                                atm_strike |-> strike.value,
                                ce_symbol |-> create_option_symbol_main(
                                    sym, strike.value, "CE", now),
                                pe_symbol |-> create_option_symbol_main(
                                    sym, strike.value, "PE", now),
                                ce_ltp |-> 0, pe_ltp |-> 0, ce_margin |-> 0]
                     /\ log' = log \o q.events
                     /\ pc' = "ce"
                     /\ UNCHANGED <<idx, outcomes>>
                ELSE /\ cur' = NoCur
                     /\ outcomes' = Append(outcomes, outcome)
                     /\ idx' = idx + 1
                     /\ log' = log \o q.events \o <<"sleep">>
                     /\ pc' = AfterSymbol(outcome, idx + 1, Len(symbols))
    /\ UNCHANGED <<mode, csvFile, margin_filter, symbols, all_results, filtered,
                   report, strikeVars, loadVars, quote, expiryVars, auth>>

\* ce_ltp = self.fyers_api.get_ltp(ce_symbol)
MainQuoteCE ==
    /\ mode = "main" /\ pc = "ce"
    /\ \E authOk \in AuthOutcomes(api), resp \in MainOptionResponses :
          LET q == get_ltp_main(api, authOk, resp)
          IN /\ api' = q.api
             /\ cur' = [cur EXCEPT !.ce_ltp = q.value]
             /\ log' = log \o q.events
    /\ pc' = "pe"
    /\ UNCHANGED <<mode, csvFile, margin_filter, symbols, idx, all_results,
                   filtered, calls, outcomes, report, strikeVars, loadVars,
                   quote, expiryVars, auth>>

\* pe_ltp = self.fyers_api.get_ltp(pe_symbol)
MainQuotePE ==
    /\ mode = "main" /\ pc = "pe"
    /\ \E authOk \in AuthOutcomes(api), resp \in MainOptionResponses :
          LET q == get_ltp_main(api, authOk, resp)
          IN /\ api' = q.api
             /\ cur' = [cur EXCEPT !.pe_ltp = q.value]
             /\ log' = log \o q.events
    /\ pc' = "ce_margin"
    /\ UNCHANGED <<mode, csvFile, margin_filter, symbols, idx, all_results,
                   filtered, calls, outcomes, report, strikeVars, loadVars,
                   quote, expiryVars, auth>>

\* ce_margin = get_margin_requirement(ce_symbol, lot_size) if ce_ltp > 0 else 0
MainMarginCE ==
    /\ mode = "main" /\ pc = "ce_margin"
    /\ IF Gt0(cur.ce_ltp)
       THEN \E authOk \in AuthOutcomes(api), span \in SpanAnswers,
               resp \in MainOptionResponses :
               LET m == get_margin_requirement_main(
                            api, authOk, span, resp, symbols[idx + 1][2])
               IN /\ api' = m.api
                  /\ cur' = [cur EXCEPT !.ce_margin = m.value]
                  /\ log' = log \o m.events
       ELSE UNCHANGED <<api, cur, log>>
    /\ pc' = "pe_margin"
    /\ UNCHANGED <<mode, csvFile, margin_filter, symbols, idx, all_results,
                   filtered, calls, outcomes, report, strikeVars, loadVars,
                   quote, expiryVars, auth>>

\* process_symbol from pe_margin to its return, then the loop's
\* "if result: all_results.append(result)" and time.sleep(1)
MainMarginPE ==
    /\ mode = "main" /\ pc = "pe_margin"
    /\ \E authOk \in AuthOutcomes(api), span \in SpanAnswers,
          resp \in MainOptionResponses :
          LET sym == symbols[idx + 1][1]
              lot_size == symbols[idx + 1][2]
              m == IF Gt0(cur.pe_ltp)
                   THEN get_margin_requirement_main(api, authOk, span, resp,
                                                    lot_size)
                   ELSE [api |-> api, value |-> 0, events |-> <<>>]
              result ==
                  [symbol |-> sym,
                   ltp |-> cur.ltp,
                   atm_strike |-> cur.atm_strike,
                   ce_contract |-> cur.ce_symbol,
                   ce_ltp |-> cur.ce_ltp,
                   ce_margin |-> cur.ce_margin,
                   pe_contract |-> cur.pe_symbol,
                   pe_ltp |-> cur.pe_ltp,
                   pe_margin |-> m.value,
                   lot_size |-> lot_size]
          IN /\ api' = m.api
             /\ all_results' = Append(all_results, result)
             /\ log' = log \o m.events \o <<"sleep">>
    /\ cur' = NoCur
    /\ outcomes' = Append(outcomes, "result")
    /\ idx' = idx + 1
    /\ pc' = AfterSymbol("result", idx + 1, Len(symbols))
    /\ UNCHANGED <<mode, csvFile, margin_filter, symbols, filtered, calls,
                   report, strikeVars, loadVars, quote, expiryVars, auth>>

\* filtered_results = self.filter_by_margin(all_results).  run returns when
\* the list is empty; otherwise it calls format_output, prints the report
\* and writes it to margin_results.txt.  An exception of format_output or of
\* the write leaves run.
MainFilter ==
    /\ mode = "main" /\ pc = "filter"
    /\ filtered' = filter_by_margin_main(all_results, margin_filter)
    /\ IF filtered' = <<>>
       THEN pc' = "done" /\ UNCHANGED report
       ELSE LET output == format_output_main(filtered', margin_filter)
            IN IF output.raised
               THEN pc' = "raised" /\ UNCHANGED report
               ELSE \E saved \in BOOLEAN :
                       /\ report' = [lines |-> output.lines, written |-> saved]
                       /\ pc' = IF saved THEN "done" ELSE "raised"
    /\ UNCHANGED <<mode, csvFile, margin_filter, symbols, idx, all_results,
                   cur, calls, outcomes, log, strikeVars, loadVars,
                   quoteVars, expiryVars, auth>>

NextRunMain ==
    \/ MainInitApi
    \/ MainReadSymbols
    \/ MainQuoteUnderlying
    \/ MainQuoteCE
    \/ MainQuotePE
    \/ MainMarginCE
    \/ MainMarginPE
    \/ MainFilter

SpecRunMain == InitRunMain /\ [][NextRunMain]_vars

-----------------------------------------------------------------------------
(* Claims about a run of main.py *)

\* run has ended, by a return or by an exception
MainRunEnded ==
    mode = "main" /\ pc \in {"done", "raised", "exit_no_auth", "exit_no_symbols"}

\* C16: in main.py, whenever at least one processed instrument passes the
\* margin filter, run formats the report with format_output and writes it
\* to margin_results.txt before it returns.
C16_ReportWrittenWhenAResultPasses ==
    (MainRunEnded /\ filtered # <<>>) => (pc = "done" /\ report.written)

====
